---- MODULE Spec2Model ----
(***************************************************************************)
(* Model of backend/main.py: the POST /api/extract-images handler          *)
(* (extract_images) and the extraction pipeline it calls                   *)
(* (extract_images_from_pdf).                                              *)
(*                                                                         *)
(* One request is followed from the content-type check to the response.    *)
(* The PDF library and the image library are the environment: what         *)
(* fitz.open, page.get_images, extract_image, Image.open and Image.save    *)
(* answer is chosen when the code asks, and what was answered is kept      *)
(* (pagesSeen, resolved) so that the result can be compared with the       *)
(* document that was walked.                                               *)
(***************************************************************************)
EXTENDS Integers, Sequences, FiniteSets, TLC

(* ------------------------------ bounds --------------------------------- *)
\* pages of a document
MaxPages == 2
\* image references listed by the pages of one document, all pages together
MaxRefs == 2
\* distinct embedded image objects (xrefs) of a document
MaxXref == 2
\* capacity of the temporary file object's write buffer, in bytes
BufferSize == 2

\* upload sizes range over 0 .. MaxUpload: empty, buffered whole, and larger
\* than the write buffer
MaxUpload == BufferSize + 1

(* ------------------------- program constants --------------------------- *)
\* main.py:72   if len(image_bytes) < 100
MinBytes == 100
\* main.py:79   if img_pil.width < 10 or img_pil.height < 10
MinDim == 10

Xrefs == 1 .. MaxXref

ContentTypes == {"none", "", "text/plain", "application/pdf"}

\* PIL modes an embedded image can decode to
Modes == {"RGB", "L", "RGBA", "LA", "P", "CMYK"}

(***************************************************************************)
(* What the libraries answer for one xref: whether extract_image returns,  *)
(* the length of the raw bytes, whether Image.open succeeds, the decoded   *)
(* width, height and mode, and whether conversion and the WEBP save        *)
(* succeed (Image.open is lazy: a truncated stream, or a side over the     *)
(* WebP limit, fails only there).                                          *)
(***************************************************************************)
Prof(res, b, dec, w, h, m, enc) ==
    [resolves |-> res, bytes |-> b, decodes |-> dec, width |-> w,
     height |-> h, mode |-> m, encodes |-> enc]

Profiles ==
    {Prof(FALSE, MinBytes, TRUE, MinDim, MinDim, "RGB", TRUE),
     Prof(TRUE, MinBytes - 1, TRUE, MinDim, MinDim, "RGB", TRUE),
     Prof(TRUE, MinBytes, FALSE, MinDim, MinDim, "RGB", TRUE),
     Prof(TRUE, MinBytes, TRUE, MinDim - 1, MinDim, "RGB", TRUE),
     Prof(TRUE, MinBytes, TRUE, MinDim, MinDim - 1, "RGB", TRUE),
     Prof(TRUE, MinBytes, TRUE, MinDim, MinDim, "RGB", FALSE)}
    \cup {Prof(TRUE, MinBytes, TRUE, MinDim, MinDim, m, TRUE) : m \in Modes}

\* resolved[x] before extract_image(x) was called
Unresolved == Prof(FALSE, 0, FALSE, 0, 0, "none", FALSE)

SeqsUpTo(S, n) == UNION {[1 .. k -> S] : k \in 0 .. n}

VARIABLES
    contentType,   \* file.content_type of the request ("none": absent)
    uploadLen,     \* length of the uploaded content
    pc,            \* position of the request in the handler / pipeline
    tmpCreated,    \* NamedTemporaryFile was called in this request
    tmpExists,     \* the temporary file exists on disk
    tmpPathSet,    \* tmp_file_path has been assigned
    uploadRead,    \* file.read() was called
    bufLen,        \* bytes held in the file object's write buffer
    diskLen,       \* bytes of the temporary file on disk
    docState,      \* pdf_document: "none", "open", "closed"
    numPages,      \* len(pdf_document)
    page_num,      \* loop variable of the page loop (0-based)
    image_list,    \* page.get_images(full=True) of the current page (xrefs)
    img_index,     \* loop variable of the image loop (0-based)
    pagesSeen,     \* the image lists of the pages enumerated so far
    seen_xrefs,    \* seen_xrefs
    resolved,      \* xref -> what the libraries answered for it
    encoded,       \* xrefs that reached the conversion/encode step
    failed,        \* xrefs whose processing raised inside the inner try
    images,        \* images
    image_index,   \* image_index
    pipeResult,    \* how extract_images_from_pdf ended
    errCause,      \* what raised the processing error
    response       \* the HTTP response

vars == <<contentType, uploadLen, pc, tmpCreated, tmpExists, tmpPathSet,
          uploadRead, bufLen, diskLen, docState, numPages, page_num,
          image_list, img_index, pagesSeen, seen_xrefs, resolved, encoded,
          failed, images, image_index, pipeResult, errCause, response>>

fileVars == <<tmpCreated, tmpExists, tmpPathSet, uploadRead, bufLen, diskLen>>
walkVars == <<numPages, page_num, image_list, img_index, pagesSeen>>
imgVars  == <<seen_xrefs, resolved, encoded, failed, images, image_index>>
reqVars  == <<contentType, uploadLen>>

NoResponse == [status |-> 0, detail |-> "", images |-> <<>>, totalImages |-> 0]

NoImagesDetail ==
    "No embedded images found in this PDF. The PDF may only contain text or vector graphics."
ProcessingDetail == "Error processing PDF: <cause>"

Init ==
    /\ contentType \in ContentTypes
    /\ uploadLen \in 0 .. MaxUpload
    /\ pc = "start"
    /\ tmpCreated = FALSE
    /\ tmpExists = FALSE
    /\ tmpPathSet = FALSE
    /\ uploadRead = FALSE
    /\ bufLen = 0
    /\ diskLen = 0
    /\ docState = "none"
    /\ numPages = 0
    /\ page_num = 0
    /\ image_list = <<>>
    /\ img_index = 0
    /\ pagesSeen = <<>>
    /\ seen_xrefs = {}
    /\ resolved = [x \in Xrefs |-> Unresolved]
    /\ encoded = {}
    /\ failed = {}
    /\ images = <<>>
    /\ image_index = 0
    /\ pipeResult = "none"
    /\ errCause = "none"
    /\ response = NoResponse

(* ------------------- extract_images_from_pdf: helpers ------------------ *)

\* faulty variant: the seen_xrefs test left out
IsDuplicate_Never(xref, seen) == FALSE

\* main.py:61   if xref in seen_xrefs: continue
IsDuplicate(xref, seen) == xref \in seen

\* faulty variant: the dimension floor written with "and" for "or"
Classify_BothDims(p) ==
    IF ~p.resolves THEN "resolve_error"
    ELSE IF p.bytes < MinBytes THEN "under_bytes"
    ELSE IF ~p.decodes THEN "decode_error"
    ELSE IF p.width < MinDim /\ p.height < MinDim THEN "under_dims"
    ELSE IF ~p.encodes THEN "encode_error"
    ELSE "accepted"

\* main.py:67-107: where the processing of one new candidate ends.  The
\* steps are tried in the code's order; the first that fails decides.
Classify(p) ==
    IF ~p.resolves THEN "resolve_error"
    ELSE IF p.bytes < MinBytes THEN "under_bytes"
    ELSE IF ~p.decodes THEN "decode_error"
    ELSE IF p.width < MinDim \/ p.height < MinDim THEN "under_dims"
    ELSE IF ~p.encodes THEN "encode_error"
    ELSE "accepted"

IsError(out) == out \in {"resolve_error", "decode_error", "encode_error"}

\* faulty variant: the try block closed after extract_image, so that only a failed
\* resolve is caught
Caught_OnlyResolve(out) == out = "resolve_error"

\* main.py:56,108: try ... except Exception around the whole candidate
Caught(out) == IsError(out)

\* main.py:83-91: the color normalization; via names the branch taken
Normalize(mode) ==
    IF mode = "RGBA" THEN [mode |-> "RGB", via |-> "white_composite"]
    ELSE IF mode = "P" THEN [mode |-> "RGB", via |-> "palette"]
    ELSE IF mode \notin {"RGB", "L"} THEN [mode |-> "RGB", via |-> "convert"]
    ELSE [mode |-> mode, via |-> "unchanged"]

\* main.py:94-100: the WEBP data URL of image xref, normalized from p.mode
DataUrl(xref, p) ==
    [mime |-> "image/webp", src |-> xref, from |-> p.mode,
     mode |-> Normalize(p.mode).mode, via |-> Normalize(p.mode).via]

\* faulty variant: image_index incremented next to seen_xrefs.add, before the skips
IndexAfter_EveryCandidate(out, idx) == idx + 1

\* main.py:102: image_index after a candidate that ended with out
IndexAfter(out, idx) == IF out = "accepted" THEN idx + 1 ELSE idx

\* faulty variant: the emptiness test left out
PipelineOutcome_NoCheck(imgs) == "list"

\* main.py:118-121: empty list raises, otherwise the list is returned
PipelineOutcome(imgs) == IF imgs = <<>> THEN "empty" ELSE "list"

RECURSIVE TotalRefs(_)
TotalRefs(ps) == IF ps = <<>> THEN 0 ELSE Len(Head(ps)) + TotalRefs(Tail(ps))

(* ----------------------- extract_images: helpers ----------------------- *)

\* faulty variant: only the missing content type is rejected
ValidContentType_AnyPresent(ct) == ct # "none" /\ ct # ""

\* main.py:131
ValidContentType(ct) == ct # "none" /\ ct # "" /\ ct = "application/pdf"

\* tmp_file.write(content) on a buffered file object: content that fits the
\* buffer stays in it; otherwise the buffer and the content go to disk
BufferedWrite(buf, disk, n) ==
    IF n <= BufferSize - buf
    THEN [buf |-> buf + n, disk |-> disk]
    ELSE [buf |-> 0, disk |-> disk + buf + n]

\* main.py:153: "No embedded images found" in error_message
ContainsNoImages(msg) == msg = NoImagesDetail
StatusFor(msg) == IF ContainsNoImages(msg) THEN 400 ELSE 500

ErrorResponse(msg) ==
    [status |-> StatusFor(msg), detail |-> msg, images |-> <<>>,
     totalImages |-> 0]

\* main.py:143-154: the response for each way the pipeline ended
ResponseFor(result, imgs) ==
    IF result = "list"
    THEN [status |-> 200, detail |-> "", images |-> imgs,
          totalImages |-> Len(imgs)]
    ELSE IF result = "empty" THEN ErrorResponse(NoImagesDetail)
    ELSE ErrorResponse(ProcessingDetail)

\* main.py:155-158: the finally clause.  With tmp_file_path assigned the
\* file is unlinked; without it, os.path.exists(tmp_file_path) raises
\* UnboundLocalError, nothing is unlinked and the request ends as an
\* unhandled server error.
FinallyExists(pathSet, exists) == IF pathSet THEN FALSE ELSE exists
FinallyResponse(pathSet, resp) ==
    IF pathSet THEN resp
    ELSE [status |-> 500, detail |-> "Internal Server Error",
          images |-> <<>>, totalImages |-> 0]

(* ------------------------------ actions -------------------------------- *)

\* main.py:131-132
RejectContentType ==
    /\ pc = "start"
    /\ ~ValidContentType(contentType)
    /\ response' = [status |-> 400, detail |-> "File must be a PDF",
                    images |-> <<>>, totalImages |-> 0]
    /\ pc' = "done"
    /\ UNCHANGED <<reqVars, fileVars, docState, walkVars, imgVars,
                   pipeResult, errCause>>

\* main.py:135
CreateTempFile ==
    /\ pc = "start"
    /\ ValidContentType(contentType)
    /\ tmpCreated' = TRUE
    /\ tmpExists' = TRUE
    /\ pc' = "read"
    /\ UNCHANGED <<reqVars, tmpPathSet, uploadRead, bufLen, diskLen, docState,
                   walkVars, imgVars, pipeResult, errCause, response>>

\* main.py:138, and 151-158 when the read raises
ReadUpload ==
    /\ pc = "read"
    /\ uploadRead' = TRUE
    /\ \E ok \in BOOLEAN :
         IF ok
         THEN /\ pc' = "write"
              /\ UNCHANGED <<tmpExists, response>>
         ELSE /\ pc' = "done"
              /\ tmpExists' = FinallyExists(tmpPathSet, tmpExists)
              /\ response' = FinallyResponse(tmpPathSet,
                                             ErrorResponse("read failed"))
    /\ UNCHANGED <<reqVars, tmpCreated, tmpPathSet, bufLen, diskLen, docState,
                   walkVars, imgVars, pipeResult, errCause>>

\* main.py:139-140, and 151-158 when the write raises
WriteUpload ==
    /\ pc = "write"
    /\ \E ok \in BOOLEAN :
         IF ok
         THEN /\ bufLen' = BufferedWrite(bufLen, diskLen, uploadLen).buf
              /\ diskLen' = BufferedWrite(bufLen, diskLen, uploadLen).disk
              /\ tmpPathSet' = TRUE
              /\ pc' = "open"
              /\ UNCHANGED <<tmpExists, response>>
         ELSE /\ pc' = "done"
              /\ tmpExists' = FinallyExists(tmpPathSet, tmpExists)
              /\ response' = FinallyResponse(tmpPathSet,
                                             ErrorResponse("write failed"))
              /\ UNCHANGED <<bufLen, diskLen, tmpPathSet>>
    /\ UNCHANGED <<reqVars, tmpCreated, uploadRead, docState, walkVars,
                   imgVars, pipeResult, errCause>>

\* main.py:41 fitz.open(pdf_path) raises (an empty file always does), 115-116
OpenFails ==
    /\ pc = "open"
    /\ pipeResult' = "error"
    /\ errCause' = "open"
    /\ pc' = "respond"
    /\ UNCHANGED <<reqVars, fileVars, docState, walkVars, imgVars, response>>

\* main.py:41 fitz.open(pdf_path) returns the document
OpenDocument ==
    /\ pc = "open"
    /\ diskLen > 0
    /\ docState' = "open"
    /\ numPages' \in 0 .. MaxPages
    /\ page_num' = 0
    /\ pc' = "page"
    /\ UNCHANGED <<reqVars, fileVars, image_list, img_index, pagesSeen,
                   imgVars, pipeResult, errCause, response>>

\* main.py:43-53: the next page lists its images
EnumeratePage ==
    /\ pc = "page"
    /\ page_num < numPages
    /\ \E lst \in SeqsUpTo(Xrefs, MaxRefs - TotalRefs(pagesSeen)) :
         /\ pagesSeen' = Append(pagesSeen, lst)
         /\ IF lst = <<>>
            THEN /\ page_num' = page_num + 1
                 /\ pc' = "page"
                 /\ UNCHANGED <<image_list, img_index>>
            ELSE /\ image_list' = lst
                 /\ img_index' = 0
                 /\ pc' = "img"
                 /\ UNCHANGED page_num
    /\ UNCHANGED <<reqVars, fileVars, docState, numPages, imgVars, pipeResult,
                   errCause, response>>

\* main.py:44,50 raise (a damaged page object), 115-116: line 113 is skipped
EnumerateFails ==
    /\ pc = "page"
    /\ page_num < numPages
    /\ pipeResult' = "error"
    /\ errCause' = "enumerate"
    /\ pc' = "respond"
    /\ UNCHANGED <<reqVars, fileVars, docState, walkVars, imgVars, response>>

\* main.py:55-111: one candidate of the current page
ProcessImage ==
    /\ pc = "img"
    /\ img_index < Len(image_list)
    /\ LET xref == image_list[img_index + 1]
           last == img_index + 1 = Len(image_list)
           advance == /\ img_index' = img_index + 1
                      /\ page_num' = IF last THEN page_num + 1 ELSE page_num
                      /\ pc' = IF last THEN "page" ELSE "img"
                      /\ UNCHANGED <<pipeResult, errCause>>
       IN IF IsDuplicate(xref, seen_xrefs)
          THEN /\ advance
               /\ UNCHANGED imgVars
          ELSE \E p \in (IF resolved[xref] # Unresolved THEN {resolved[xref]}
                         ELSE Profiles) :
                 LET out == Classify(p) IN
                   /\ seen_xrefs' = seen_xrefs \cup {xref}
                   /\ resolved' = [resolved EXCEPT ![xref] = p]
                   /\ encoded' = IF out \in {"encode_error", "accepted"}
                                 THEN encoded \cup {xref} ELSE encoded
                   /\ image_index' = IndexAfter(out, image_index)
                   /\ images' = IF out = "accepted"
                                THEN Append(images,
                                       [pageNumber |-> page_num + 1,
                                        imageIndex |-> image_index',
                                        url |-> DataUrl(xref, p)])
                                ELSE images
                   /\ IF IsError(out) /\ ~Caught(out)
                      THEN /\ pipeResult' = "error"
                           /\ errCause' = "image"
                           /\ pc' = "respond"
                           /\ UNCHANGED <<failed, img_index, page_num>>
                      ELSE /\ failed' = IF IsError(out)
                                        THEN failed \cup {xref} ELSE failed
                           /\ advance
    /\ UNCHANGED <<reqVars, fileVars, docState, numPages, image_list,
                   pagesSeen, response>>

\* main.py:113-121: the loop is over; close, then return or raise
FinishLoop ==
    /\ pc = "page"
    /\ page_num = numPages
    /\ docState' = "closed"
    /\ pipeResult' = PipelineOutcome(images)
    /\ pc' = "respond"
    /\ UNCHANGED <<reqVars, fileVars, walkVars, imgVars, errCause, response>>

\* main.py:143-158: the response, then the finally clause
Respond ==
    /\ pc = "respond"
    /\ response' = FinallyResponse(tmpPathSet, ResponseFor(pipeResult, images))
    /\ tmpExists' = FinallyExists(tmpPathSet, tmpExists)
    /\ pc' = "done"
    /\ UNCHANGED <<reqVars, tmpCreated, tmpPathSet, uploadRead, bufLen,
                   diskLen, docState, walkVars, imgVars, pipeResult, errCause>>

Next ==
    \/ RejectContentType
    \/ CreateTempFile
    \/ ReadUpload
    \/ WriteUpload
    \/ OpenFails
    \/ OpenDocument
    \/ EnumeratePage
    \/ EnumerateFails
    \/ ProcessImage
    \/ FinishLoop
    \/ Respond

Spec == Init /\ [][Next]_vars

TypeOK ==
    /\ pc \in {"start", "read", "write", "open", "page", "img", "respond",
               "done"}
    /\ docState \in {"none", "open", "closed"}
    /\ pipeResult \in {"none", "list", "empty", "error"}
    /\ page_num \in 0 .. numPages
    /\ seen_xrefs \subseteq Xrefs

(* ----------------------- vocabulary of the claims ---------------------- *)

Returned == pipeResult = "list"

\* the modes that carry an alpha channel
HasAlpha(mode) == mode \in {"RGBA", "LA", "PA", "RGBa", "La"}

OnPage(x, i) == \E j \in 1 .. Len(pagesSeen[i]) : pagesSeen[i][j] = x

ListedXrefs == {x \in Xrefs : \E i \in 1 .. Len(pagesSeen) : OnPage(x, i)}

FirstPage(x) ==
    CHOOSE i \in 1 .. Len(pagesSeen) :
        OnPage(x, i) /\ \A k \in 1 .. (i - 1) : ~OnPage(x, k)

RecordsOf(x) == {i \in 1 .. Len(images) : images[i].url.src = x}

PassesFloors(p) ==
    /\ p.resolves
    /\ p.decodes
    /\ p.bytes >= MinBytes
    /\ p.width >= MinDim
    /\ p.height >= MinDim

UnderFloors(p) == p.bytes < MinBytes \/ p.width < MinDim \/ p.height < MinDim

DistinctSources ==
    \A i, j \in 1 .. Len(images) :
        images[i].url.src = images[j].url.src => i = j

OneRecordAtFirstPage(x) ==
    /\ Cardinality(RecordsOf(x)) = 1
    /\ \A i \in RecordsOf(x) : images[i].pageNumber = FirstPage(x)

(* -------------------------------- claims ------------------------------- *)

\* C1 (as stated): in a returned list every xref that resolves, decodes and
\* passes the size and dimension floors has exactly one record, numbered
\* with the first page that lists it, and no two records share an xref.
C1_OneRecordPerPassingXref ==
    Returned =>
        /\ \A x \in ListedXrefs :
               PassesFloors(resolved[x]) => OneRecordAtFirstPage(x)
        /\ DistinctSources

\* C1 (amended): the same for every xref that resolves, decodes, passes the
\* floors and is also normalized and encoded without error; an xref whose
\* conversion or WEBP save raises has no record.
C1_OneRecordPerEncodedXref ==
    Returned =>
        /\ \A x \in ListedXrefs :
               /\ (PassesFloors(resolved[x]) /\ resolved[x].encodes)
                      => OneRecordAtFirstPage(x)
               /\ ~resolved[x].encodes => RecordsOf(x) = {}
        /\ DistinctSources

\* C1 witness: a returned list holds the record of an xref that two
\* different pages list, numbered with the first of them.
C1_Witness ==
    /\ Returned
    /\ \E x \in ListedXrefs :
         /\ \E i, k \in 1 .. Len(pagesSeen) :
                i < k /\ OnPage(x, i) /\ OnPage(x, k)
         /\ RecordsOf(x) # {}
         /\ \A i \in RecordsOf(x) : images[i].pageNumber = FirstPage(x)

\* C2: the imageIndex values of a returned list, in output order, are
\* 1, 2, ..., len(result).
C2_IndexIsPosition ==
    Returned => \A i \in 1 .. Len(images) : images[i].imageIndex = i

\* C2 witness: a returned list whose first record comes from the second
\* candidate of the document, the first one having been skipped.
C2_Witness ==
    /\ Returned
    /\ TotalRefs(pagesSeen) > 1
    /\ \E x \in ListedXrefs : RecordsOf(x) = {} /\ FirstPage(x) = 1
    /\ images[1].imageIndex = 1
    /\ images[1].pageNumber > 1

\* C3: no record comes from a candidate whose raw bytes are under 100 or
\* whose width or height is under 10, and no such candidate reaches the
\* encode step.
C3_FloorsKeepOut ==
    /\ \A i \in 1 .. Len(images) : ~UnderFloors(resolved[images[i].url.src])
    /\ \A x \in encoded : ~UnderFloors(resolved[x])

\* C3 witness: a returned list from a document that also listed a candidate
\* under a floor.
C3_Witness ==
    /\ Returned
    /\ \E x \in ListedXrefs :
         /\ resolved[x].resolves
         /\ UnderFloors(resolved[x])
         /\ RecordsOf(x) = {}

\* C4: when the walk ends with no accepted image, the pipeline ends with
\* the empty-result error and the request with 400 and the fixed detail;
\* no success response carries an empty images list.
C4_EmptyIsFailure ==
    /\ (docState = "closed" /\ images = <<>>) => pipeResult = "empty"
    /\ (pc = "done" /\ docState = "closed" /\ images = <<>>) =>
           (response.status = 400 /\ response.detail = NoImagesDetail)
    /\ response.status = 200 =>
           (response.images # <<>> /\ response.totalImages > 0)

\* C4 witness: a request answered 400 with the fixed detail after every
\* candidate of the document was skipped.
C4_Witness ==
    /\ pc = "done"
    /\ pipeResult = "empty"
    /\ TotalRefs(pagesSeen) > 0
    /\ response.status = 400
    /\ response.detail = NoImagesDetail

\* C5: a request whose content type is missing or not application/pdf
\* creates no temporary file, reads no upload, opens no document, and ends
\* with 400 "File must be a PDF".
C5_RejectedBeforeProcessing ==
    contentType # "application/pdf" =>
        /\ ~tmpCreated
        /\ ~uploadRead
        /\ docState = "none"
        /\ pagesSeen = <<>>
        /\ pc \in {"start", "done"}
        /\ pc = "done" =>
               (response.status = 400 /\ response.detail = "File must be a PDF")

\* C5 witness: a text/plain upload answered 400.
C5_Witness ==
    /\ pc = "done"
    /\ contentType = "text/plain"
    /\ response.status = 400

\* C6: a failure while processing one image is never what ends the call:
\* a processing error comes from opening or enumerating only, every
\* candidate up to the walk's position has been considered, a call that
\* returns or ends empty has walked all pages, and a failed image has no
\* record.
C6_PerImageFailureContained ==
    /\ pipeResult = "error" => errCause \in {"open", "enumerate"}
    /\ \A i \in 1 .. Len(pagesSeen) : \A j \in 1 .. Len(pagesSeen[i]) :
           (i < page_num + 1 \/ (i = page_num + 1 /\ j <= img_index))
               => pagesSeen[i][j] \in seen_xrefs
    /\ pipeResult \in {"list", "empty"} =>
           (page_num = numPages /\ Len(pagesSeen) = numPages)
    /\ \A x \in failed : RecordsOf(x) = {}

\* C6 witness: the first candidate of the document failed and the call
\* still returned a list with a later candidate's record.
C6_Witness ==
    /\ Returned
    /\ pagesSeen[1] # <<>>
    /\ pagesSeen[1][1] \in failed
    /\ images # <<>>

\* C7: once the document was opened, it is closed by the time
\* extract_images_from_pdf returns or raises.
C7_DocumentClosedOnExit ==
    (pc \in {"respond", "done"} /\ docState # "none") => docState = "closed"

\* C8: a request that created the temporary file leaves no temporary file
\* behind.
C8_TempFileDeleted ==
    (pc = "done" /\ tmpCreated) => ~tmpExists

\* C9: every record whose image decoded to a mode with an alpha channel was
\* normalized by the white-background composite, to RGB.
C9_AlphaCompositedOnWhite ==
    \A i \in 1 .. Len(images) :
        HasAlpha(images[i].url.from) =>
            (images[i].url.via = "white_composite" /\ images[i].url.mode = "RGB")

\* C10: when the pipeline opens the temporary file by path, the bytes on
\* disk are the whole upload.
C10_WholeUploadOnDisk ==
    pc = "open" => diskLen = uploadLen

====
